---- MODULE Spec2Model ----
(***************************************************************************)
(* The voice-changer page (src/app/page.tsx): the audio graph held in the  *)
(* component's refs, the settings state and the effect that pushes it to   *)
(* the nodes, the microphone and file handlers, and the teardown run by    *)
(* the build effect's cleanup.                                             *)
(*                                                                         *)
(* Units.  Fractions the page handles with two decimals (reverbWet,        *)
(* distortion, delayTime, delayFeedback, gains) are held in hundredths;    *)
(* semitones, dB and ringModHz are whole numbers; the ring oscillator's    *)
(* frequency is held in ten-thousandths of a hertz so that the 0.0001 Hz   *)
(* floor of the settings effect is the integer 1.                          *)
(***************************************************************************)
EXTENDS Integers, Sequences, FiniteSets, TLC

\* ------------------------------------------------------------- bounds
MaxMounts == 2          \* runs of the build effect (the mount, and one re-run)
MaxSettingsOps == 3     \* applyPreset / setSetting calls
MaxMicToggles == 3      \* handleMicToggle calls
MaxFileSelects == 3     \* handleFileSelect calls
MaxPlayClicks == 3      \* handlePlayPause calls
MaxRecordings == 3      \* startRecording calls that make a recorder

\* ---------------------------------------------------- program constants
FreqScale == 10000      \* frequency units per hertz (0.0001 Hz = 1)
RingFloor == 1          \* Math.max(0.0001, ...) in frequency units
RingGainOn == 50        \* ring mix gain 0.5
RingGainOff == 0        \* ring mix gain 0.0
RingBuildFallbackHz == 1 \* settings.ringModHz || 1
FinalGainLevel == 90    \* new Tone.Gain(0.9)
ReverbDecay == 240      \* decay: 2.4
AnalyserSize == 64      \* new Tone.Analyser("fft", 64)

Max(a, b) == IF a >= b THEN a ELSE b

\* ------------------------------------------------------------ settings
PresetIds == {"clean", "deep", "chipmunk", "robot", "radio", "alien", "echo"}

SettingKeys ==
  {"pitchSemitones", "reverbWet", "distortion", "delayTime", "delayFeedback",
   "eqLow", "eqMid", "eqHigh", "ringModHz"}

PRESETS ==
  [clean |->
     [pitchSemitones |-> 0, reverbWet |-> 5, distortion |-> 0, delayTime |-> 0,
      delayFeedback |-> 0, eqLow |-> 0, eqMid |-> 0, eqHigh |-> 0, ringModHz |-> 0],
   deep |->
     [pitchSemitones |-> -6, reverbWet |-> 10, distortion |-> 5, delayTime |-> 0,
      delayFeedback |-> 0, eqLow |-> 3, eqMid |-> -2, eqHigh |-> -1, ringModHz |-> 0],
   chipmunk |->
     [pitchSemitones |-> 7, reverbWet |-> 12, distortion |-> 0, delayTime |-> 12,
      delayFeedback |-> 25, eqLow |-> -2, eqMid |-> 0, eqHigh |-> 2, ringModHz |-> 0],
   robot |->
     [pitchSemitones |-> 0, reverbWet |-> 8, distortion |-> 35, delayTime |-> 0,
      delayFeedback |-> 0, eqLow |-> 0, eqMid |-> 3, eqHigh |-> -2, ringModHz |-> 90],
   radio |->
     [pitchSemitones |-> -1, reverbWet |-> 3, distortion |-> 15, delayTime |-> 0,
      delayFeedback |-> 0, eqLow |-> -6, eqMid |-> 4, eqHigh |-> -4, ringModHz |-> 0],
   alien |->
     [pitchSemitones |-> -12, reverbWet |-> 18, distortion |-> 22, delayTime |-> 18,
      delayFeedback |-> 30, eqLow |-> 2, eqMid |-> -4, eqHigh |-> 3, ringModHz |-> 30],
   echo |->
     [pitchSemitones |-> 0, reverbWet |-> 20, distortion |-> 0, delayTime |-> 28,
      delayFeedback |-> 45, eqLow |-> 0, eqMid |-> 0, eqHigh |-> 1, ringModHz |-> 0]]

\* The delay feedback slider with max={1}, the 0..1 of the field's comment.
SliderValuesFullFeedback(key) ==
  CASE key = "pitchSemitones" -> {-12, 12}
    [] key = "reverbWet" -> {0, 100}
    [] key = "distortion" -> {0, 100}
    [] key = "delayTime" -> {0, 50}
    [] key = "delayFeedback" -> {0, 100}
    [] key = "ringModHz" -> {0, 1, 200}
    [] OTHER -> {-12, 12}

\* The values a slider hands to setSetting here: the two ends of the
\* slider's range (min and max of the <Slider> element) and, for the ring
\* slider, its first step above 0 as well.
SliderValues(key) ==
  CASE key = "pitchSemitones" -> {-12, 12}
    [] key = "reverbWet" -> {0, 100}
    [] key = "distortion" -> {0, 100}
    [] key = "delayTime" -> {0, 50}
    [] key = "delayFeedback" -> {0, 90}
    [] key = "ringModHz" -> {0, 1, 200}
    [] OTHER -> {-12, 12}

\* --------------------------------------------------------------- nodes
\* A node is <<kind, serial>>; the serial is the build that constructed it
\* (or the count of microphones / players created so far).
Null == <<"null", 0>>
Destination == <<"Destination", 0>>      \* Tone.Destination

BuiltKinds ==
  {"pitch", "ringOsc", "ringGain", "distortion", "delay", "reverb", "eq",
   "analyser", "finalGain"}

\* The refs of the component, by the kind of node each holds.
RefNames ==
  {"filePlayer", "input", "pitch", "ringOsc", "ringGain", "distortion",
   "delay", "reverb", "eq", "analyser", "finalGain", "mediaDest"}

\* The order in which the cleanup disposes what the refs hold.
TeardownOrder ==
  <<"filePlayer", "input", "pitch", "ringOsc", "ringGain", "distortion",
    "delay", "reverb", "eq", "analyser", "finalGain">>

VARIABLES
  mounted,        \* the build effect has run and its cleanup has not
  mounts,         \* runs of the build effect so far
  teardowns,      \* runs of the cleanup so far
  ctx,            \* the Tone context: "suspended" | "running"
  startQ,         \* continuations waiting on `await startTone()`, in call order
  settings,       \* the settings state
  settingsObj,    \* the identity of the object held by the settings state
  preset,         \* the preset state
  depsObj,        \* the settings object the settings effect last ran with
  rendered,       \* the settings of the render whose effects ran last
  settingsOps,    \* applyPreset / setSetting calls so far
  refs,           \* ref name -> node held, or Null
  nodes,          \* every node constructed so far
  param,          \* node -> its parameters
  edges,          \* connections <<from, to>>
  disposeCount,   \* node -> dispose() calls that completed on it
  threw,          \* ref whose dispose raised in the last cleanup, or "none"
  escaped,        \* an error left the cleanup
  isMicLive,      \* the isMicLive state
  micState,       \* microphone node -> "created" | "open" | "closed"
  micReleases,    \* microphone node -> times its stream was stopped
  micPending,     \* microphones whose open() has not settled
  micToggles,     \* handleMicToggle calls so far
  fileSelects,    \* handleFileSelect calls so far
  isPlayingFile,  \* the isPlayingFile state
  onstopSet,      \* players whose onstop clears isPlayingFile
  playClicks,     \* handlePlayPause calls so far
  isRecording,    \* the isRecording state
  recorder,       \* recording session -> "recording" | "stopping" | "inactive"
  mediaRecorder,  \* the session of the recorder in mediaRecorderRef, or 0
  recordedChunks, \* recordedChunksRef.current
  delivered,      \* session -> the non-empty chunks its recorder delivered
  blobs,          \* session -> the chunks of the blob its onstop built
  recordings,     \* recorders constructed so far
  lastOp          \* the step taken last

lifeVars == <<mounted, mounts, teardowns>>
setVars == <<settings, settingsObj, preset, depsObj, rendered, settingsOps>>
graphVars == <<refs, nodes, param, edges, disposeCount>>
errVars == <<threw, escaped>>
micVars == <<isMicLive, micState, micReleases, micPending, micToggles>>
playVars == <<isPlayingFile, onstopSet, playClicks>>
recVars ==
  <<isRecording, recorder, mediaRecorder, recordedChunks, delivered, blobs,
    recordings>>
extVars == <<playVars, recVars>>
vars ==
  <<lifeVars, ctx, startQ, setVars, graphVars, errVars, micVars, fileSelects,
    extVars, lastOp>>

NoRefs == [r \in RefNames |-> Null]

\* Object identity of a settings value: PRESETS[id] is one object per id,
\* and every setSetting call makes a new one ({ ...s, [key]: v }).
PresetObj(id) == <<id, 0>>
FreshObj(n) == <<"fresh", n>>
NoObj == <<"none", 0>>

\* What is left of a handler after its `await startTone()`.
BuildCont(s) == [op |-> "build", settings |-> s]
MicCont(live) == [op |-> "mic", live |-> live]
FileCont == [op |-> "file"]

\* The settings effect is due: React re-runs it when the settings object
\* differs from the one it last ran with.
Pending == mounted /\ settingsObj # depsObj
Node(kind, n) == <<kind, n>>
KindOf(n) == n[1]
Built == refs["pitch"] # Null

Init ==
  /\ mounted = TRUE
  /\ mounts = 1
  /\ teardowns = 0
  /\ ctx = "suspended"
  /\ startQ = <<BuildCont(PRESETS["clean"])>>
  /\ settings = PRESETS["clean"]
  /\ settingsObj = PresetObj("clean")
  /\ preset = "clean"
  /\ depsObj = PresetObj("clean")
  /\ rendered = PRESETS["clean"]
  /\ settingsOps = 0
  /\ refs = NoRefs
  /\ nodes = {}
  /\ param = <<>>
  /\ edges = {}
  /\ disposeCount = <<>>
  /\ threw = "none"
  /\ escaped = FALSE
  /\ isMicLive = FALSE
  /\ micState = <<>>
  /\ micReleases = <<>>
  /\ micPending = {}
  /\ micToggles = 0
  /\ fileSelects = 0
  /\ isPlayingFile = FALSE
  /\ onstopSet = {}
  /\ playClicks = 0
  /\ isRecording = FALSE
  /\ recorder = <<>>
  /\ mediaRecorder = 0
  /\ recordedChunks = <<>>
  /\ delivered = <<>>
  /\ blobs = <<>>
  /\ recordings = 0
  /\ lastOp = "init"

\* ------------------------------------------------------------ helpers
Range(f) == {f[i] : i \in DOMAIN f}
Mics == {n \in nodes : KindOf(n) = "mic"}
Players == {n \in nodes : KindOf(n) = "player"}
Builds == Cardinality({n \in nodes : KindOf(n) = "pitch"})
EffectNodes == {n \in nodes : KindOf(n) \in BuiltKinds}

\* node.disconnect(): the node's outgoing connections go.
Disconnect(es, ns) == {e \in es : e[1] \notin ns}

\* Tone.UserMedia.close(): stops the stream of an open microphone; a
\* microphone that is not open has no stream to stop.
CloseMics(ms, ns) ==
  [m \in DOMAIN ms |-> IF m \in ns /\ ms[m] = "open" THEN "closed" ELSE ms[m]]
CountReleases(rel, ms, ns) ==
  [m \in DOMAIN rel |-> IF m \in ns /\ ms[m] = "open" THEN rel[m] + 1 ELSE rel[m]]

\* ---------------------------------------------------------- buildGraph
\* The parameters each stage is constructed with.
BuildParams(s) ==
  [pitch |-> [pitch |-> s.pitchSemitones],
   distortion |-> [distortion |-> s.distortion],
   delay |-> [delayTime |-> s.delayTime, feedback |-> s.delayFeedback],
   reverb |-> [decay |-> ReverbDecay, wet |-> s.reverbWet],
   eq |-> [low |-> s.eqLow, mid |-> s.eqMid, high |-> s.eqHigh],
   finalGain |-> [gain |-> FinalGainLevel],
   analyser |-> [size |-> AnalyserSize],
   ringOsc |->
     [frequency |->
        (IF s.ringModHz # 0 THEN s.ringModHz ELSE RingBuildFallbackHz) * FreqScale,
      state |-> "stopped"],
   ringGain |-> [gain |-> IF s.ringModHz > 0 THEN RingGainOn ELSE RingGainOff]]

\* The connections buildGraph makes between the nodes of build g.
BuildEdges(g) ==
  {<<Node("pitch", g), Destination>>,                  \* .toDestination()
   <<Node("ringOsc", g), Node("ringGain", g)>>,
   <<Node("pitch", g), Node("distortion", g)>>,
   <<Node("ringGain", g), Node("distortion", g)>>,
   <<Node("distortion", g), Node("delay", g)>>,
   <<Node("delay", g), Node("reverb", g)>>,
   <<Node("reverb", g), Node("eq", g)>>,
   <<Node("eq", g), Node("finalGain", g)>>,
   <<Node("finalGain", g), Node("analyser", g)>>,
   <<Node("finalGain", g), Destination>>,
   <<Destination, Node("mediaDest", g)>>}

\* `await startTone()` let through without the context running.
StartNotAwaited == TRUE

\* `await startTone()`: Tone.start() resolves once the context is running.
StartResolved == ctx = "running"

\* The context starts: every `await Tone.start()` made so far can resolve.
ContextStart ==
  /\ ctx = "suspended"
  /\ startQ # <<>>
  /\ ctx' = "running"
  /\ lastOp' = "ContextStart"
  /\ UNCHANGED extVars
  /\ UNCHANGED <<lifeVars, startQ, setVars, graphVars, errVars, micVars, fileSelects>>

\* buildGraph after its await: constructs, connects, stores the refs.
BuildGraphResume ==
  /\ StartResolved
  /\ startQ # <<>>
  /\ Head(startQ).op = "build"
  /\ LET g == Builds + 1
         s == Head(startQ).settings
         new == {Node(k, g) : k \in BuiltKinds}
     IN /\ nodes' = nodes \cup new \cup {Node("mediaDest", g)}
        /\ param' = [n \in DOMAIN param \cup new |->
                       IF n \in new THEN BuildParams(s)[KindOf(n)] ELSE param[n]]
        /\ disposeCount' = [n \in nodes' |->
                              IF n \in nodes THEN disposeCount[n] ELSE 0]
        /\ edges' = edges \cup BuildEdges(g)
        /\ refs' = [r \in RefNames |->
                      IF r \in BuiltKinds \cup {"mediaDest"} THEN Node(r, g)
                      ELSE refs[r]]
  /\ startQ' = Tail(startQ)
  /\ lastOp' = "BuildGraphResume"
  /\ UNCHANGED extVars
  /\ UNCHANGED <<lifeVars, ctx, setVars, errVars, micVars, fileSelects>>

\* ------------------------------------------------------ settings state
\* applyPreset(id): setPreset(id); setSettings(PRESETS[id]).
ApplyPreset(id) ==
  /\ mounted
  /\ settingsOps < MaxSettingsOps
  /\ preset' = id
  /\ settings' = PRESETS[id]
  /\ settingsObj' = PresetObj(id)
  /\ settingsOps' = settingsOps + 1
  /\ lastOp' = "ApplyPreset"
  /\ UNCHANGED extVars
  /\ UNCHANGED <<lifeVars, ctx, startQ, depsObj, rendered, graphVars, errVars, micVars, fileSelects>>

\* setSetting as setSettings({ ...settings, [key]: v }): the copy is made
\* of the settings the handler's render saw.
SetSettingFromRender(key, v) ==
  /\ mounted
  /\ settingsOps < MaxSettingsOps
  /\ settings' = [rendered EXCEPT ![key] = v]
  /\ settingsObj' = FreshObj(settingsOps + 1)
  /\ settingsOps' = settingsOps + 1
  /\ lastOp' = "SetSetting"
  /\ UNCHANGED extVars
  /\ UNCHANGED <<lifeVars, ctx, startQ, preset, depsObj, rendered, graphVars, errVars, micVars, fileSelects>>

\* setSetting(key, v): setSettings((s) => ({ ...s, [key]: v })).
SetSetting(key, v) ==
  /\ mounted
  /\ settingsOps < MaxSettingsOps
  /\ settings' = [settings EXCEPT ![key] = v]
  /\ settingsObj' = FreshObj(settingsOps + 1)
  /\ settingsOps' = settingsOps + 1
  /\ lastOp' = "SetSetting"
  /\ UNCHANGED extVars
  /\ UNCHANGED <<lifeVars, ctx, startQ, preset, depsObj, rendered, graphVars, errVars, micVars, fileSelects>>

\* ----------------------------------------------------- settings effect
\* ref.current?.set(rec): nothing when the ref is empty.
SetOn(p, r, rec) == IF refs[r] = Null THEN p ELSE [p EXCEPT ![refs[r]] = rec]

\* The ring branch of the effect, on the oscillator and its gain.
RingFrequency(hz) == Max(RingFloor, hz * FreqScale)
\* The ring branch without its stop(): the oscillator is only muted.
RingStateMuteOnly(hz, state) ==
  IF hz > 0 /\ state = "stopped" THEN "started" ELSE state

RingState(hz, state) ==
  IF hz > 0
  THEN IF state = "stopped" THEN "started" ELSE state
  ELSE IF state = "started" THEN "stopped" ELSE state
RingGain(hz) == IF hz > 0 THEN RingGainOn ELSE RingGainOff

RingUpdate(p, s) ==
  IF refs["ringOsc"] # Null /\ refs["ringGain"] # Null
  THEN [p EXCEPT
          ![refs["ringOsc"]] =
             [frequency |-> RingFrequency(s.ringModHz),
              state |-> RingState(s.ringModHz, p[refs["ringOsc"]].state)],
          ![refs["ringGain"]] = [gain |-> RingGain(s.ringModHz)]]
  ELSE p

\* applySettings with the delay's feedback left as it was.
applySettingsKeepsFeedback(p, s) ==
  LET p1 == SetOn(p, "pitch", [pitch |-> s.pitchSemitones])
      p2 == SetOn(p1, "distortion", [distortion |-> s.distortion])
      p3 == IF refs["delay"] = Null THEN p2
            ELSE [p2 EXCEPT ![refs["delay"]].delayTime = s.delayTime]
      p4 == IF refs["reverb"] = Null THEN p3
            ELSE [p3 EXCEPT ![refs["reverb"]].wet = s.reverbWet]
      p5 == SetOn(p4, "eq", [low |-> s.eqLow, mid |-> s.eqMid, high |-> s.eqHigh])
  IN RingUpdate(p5, s)

\* The parameters after the effect has run with settings s.
applySettings(p, s) ==
  LET p1 == SetOn(p, "pitch", [pitch |-> s.pitchSemitones])
      p2 == SetOn(p1, "distortion", [distortion |-> s.distortion])
      p3 == SetOn(p2, "delay",
                  [delayTime |-> s.delayTime, feedback |-> s.delayFeedback])
      p4 == IF refs["reverb"] = Null THEN p3
            ELSE [p3 EXCEPT ![refs["reverb"]].wet = s.reverbWet]
      p5 == SetOn(p4, "eq", [low |-> s.eqLow, mid |-> s.eqMid, high |-> s.eqHigh])
  IN RingUpdate(p5, s)

\* The settings effect taking the ring side-chain out of the graph when ring
\* modulation is off, instead of muting it.
SettingsEffectRewires ==
  /\ Pending
  /\ param' = applySettings(param, settings)
  /\ edges' = IF settings.ringModHz = 0 /\ refs["ringGain"] # Null
              THEN Disconnect(edges, {refs["ringGain"]})
              ELSE edges
  /\ depsObj' = settingsObj
  /\ rendered' = settings
  /\ lastOp' = "SettingsEffect"
  /\ UNCHANGED extVars
  /\ UNCHANGED <<lifeVars, ctx, startQ, settings, settingsObj, preset, settingsOps,
                 refs, nodes, disposeCount, errVars, micVars, fileSelects>>

\* useEffect(..., [settings]): runs after a render whose settings object is
\* not the one it last ran with.
SettingsEffect ==
  /\ Pending
  /\ param' = applySettings(param, settings)
  /\ depsObj' = settingsObj
  /\ rendered' = settings
  /\ lastOp' = "SettingsEffect"
  /\ UNCHANGED extVars
  /\ UNCHANGED <<lifeVars, ctx, startQ, settings, settingsObj, preset, settingsOps,
                 refs, nodes, edges, disposeCount, errVars, micVars, fileSelects>>

\* ------------------------------------------------------------ teardown
Held(r) == refs[r] # Null
IndexOf(r) == CHOOSE i \in DOMAIN TeardownOrder : TeardownOrder[i] = r

\* The refs whose dispose() completes when the dispose of ref t raises
\* ("none": no dispose raises).  All eleven calls sit in one try block, so
\* the first error ends the block.
DisposedRefs(t) ==
  {r \in Range(TeardownOrder) :
     Held(r) /\ (t = "none" \/ IndexOf(r) < IndexOf(t))}

\* Whether the error raised by the dispose of ref t leaves the cleanup:
\* `catch {}` takes it.
Escapes(t) == FALSE

\* The cleanup of the build effect.  dispose() disconnects the node and, on
\* a microphone, closes its stream.
Teardown(t) ==
  /\ mounted
  /\ t = "none" \/ (t \in Range(TeardownOrder) /\ Held(t))
  /\ LET ds == {refs[r] : r \in DisposedRefs(t)}
     IN /\ disposeCount' = [n \in DOMAIN disposeCount |->
                              IF n \in ds THEN disposeCount[n] + 1
                              ELSE disposeCount[n]]
        /\ edges' = Disconnect(edges, ds)
        /\ micState' = CloseMics(micState, ds)
        /\ micReleases' = CountReleases(micReleases, micState, ds)
  /\ threw' = t
  /\ escaped' = Escapes(t)
  /\ mounted' = FALSE
  /\ teardowns' = teardowns + 1
  /\ lastOp' = "Teardown"
  /\ UNCHANGED extVars
  /\ UNCHANGED <<mounts, ctx, startQ, setVars, refs, nodes, param, isMicLive,
                 micPending, micToggles, fileSelects>>

\* The effects run again on the same component (its refs and state kept):
\* buildGraph() is called anew, with the settings of the render it closes
\* over, and the settings effect is due.
Mount ==
  /\ ~mounted
  /\ mounts < MaxMounts
  /\ mounted' = TRUE
  /\ mounts' = mounts + 1
  /\ startQ' = Append(startQ, BuildCont(settings))
  /\ depsObj' = NoObj
  /\ lastOp' = "Mount"
  /\ UNCHANGED extVars
  /\ UNCHANGED <<teardowns, ctx, settings, settingsObj, preset, rendered,
                 settingsOps, graphVars, errVars, micVars, fileSelects>>

\* ----------------------------------------------------- handleMicToggle
\* The click: the handler starts with the isMicLive of its render and
\* waits on startTone().
MicToggle ==
  /\ mounted
  /\ micToggles < MaxMicToggles
  /\ startQ' = Append(startQ, MicCont(isMicLive))
  /\ micToggles' = micToggles + 1
  /\ lastOp' = "MicToggle"
  /\ UNCHANGED extVars
  /\ UNCHANGED <<lifeVars, ctx, setVars, graphVars, errVars, isMicLive, micState,
                 micReleases, micPending, fileSelects>>

\* After the await, !isMicLive: a microphone is made and open() awaited.
MicToggleOn ==
  /\ StartResolved
  /\ startQ # <<>>
  /\ Head(startQ).op = "mic"
  /\ ~Head(startQ).live
  /\ LET m == Node("mic", Cardinality(Mics) + 1)
     IN /\ nodes' = nodes \cup {m}
        /\ disposeCount' = [n \in nodes' |-> IF n \in nodes THEN disposeCount[n] ELSE 0]
        /\ micState' = [n \in DOMAIN micState \cup {m} |->
                          IF n = m THEN "created" ELSE micState[n]]
        /\ micReleases' = [n \in DOMAIN micReleases \cup {m} |->
                             IF n = m THEN 0 ELSE micReleases[n]]
        /\ micPending' = micPending \cup {m}
  /\ startQ' = Tail(startQ)
  /\ lastOp' = "MicToggleOn"
  /\ UNCHANGED extVars
  /\ UNCHANGED <<lifeVars, ctx, setVars, refs, param, edges, errVars, isMicLive,
                 micToggles, fileSelects>>

\* After the await, isMicLive: the held microphone is disconnected and
\* closed, the ref emptied.
MicToggleOff ==
  /\ StartResolved
  /\ startQ # <<>>
  /\ Head(startQ).op = "mic"
  /\ Head(startQ).live
  /\ LET held == IF refs["input"] = Null THEN {} ELSE {refs["input"]}
     IN /\ edges' = Disconnect(edges, held)
        /\ micState' = CloseMics(micState, held)
        /\ micReleases' = CountReleases(micReleases, micState, held)
  /\ refs' = [refs EXCEPT !["input"] = Null]
  /\ isMicLive' = FALSE
  /\ startQ' = Tail(startQ)
  /\ lastOp' = "MicToggleOff"
  /\ UNCHANGED extVars
  /\ UNCHANGED <<lifeVars, ctx, setVars, nodes, param, disposeCount, errVars,
                 micPending, micToggles, fileSelects>>

\* mic.open() resolves: the stream is open; connect to the entry node (a
\* TypeError when the pitch ref is empty, which ends the handler), store.
MicOpenResolve(m) ==
  /\ m \in micPending
  /\ micPending' = micPending \ {m}
  /\ micState' = [micState EXCEPT ![m] = "open"]
  /\ IF refs["pitch"] = Null
     THEN UNCHANGED <<edges, refs, isMicLive>>
     ELSE /\ edges' = edges \cup {<<m, refs["pitch"]>>}
          /\ refs' = [refs EXCEPT !["input"] = m]
          /\ isMicLive' = TRUE
  /\ lastOp' = "MicOpenResolve"
  /\ UNCHANGED extVars
  /\ UNCHANGED <<lifeVars, ctx, startQ, setVars, nodes, param, disposeCount,
                 errVars, micReleases, micToggles, fileSelects>>

\* handleMicToggle with setIsMicLive(true) ahead of `await mic.open()`.
MicOpenRejectMarksLive(m) ==
  /\ m \in micPending
  /\ micPending' = micPending \ {m}
  /\ isMicLive' = TRUE
  /\ lastOp' = "MicOpenReject"
  /\ UNCHANGED extVars
  /\ UNCHANGED <<lifeVars, ctx, startQ, setVars, graphVars, errVars,
                 micState, micReleases, micToggles, fileSelects>>

\* mic.open() rejects (permission refused): the handler ends there.
MicOpenReject(m) ==
  /\ m \in micPending
  /\ micPending' = micPending \ {m}
  /\ lastOp' = "MicOpenReject"
  /\ UNCHANGED extVars
  /\ UNCHANGED <<lifeVars, ctx, startQ, setVars, graphVars, errVars, isMicLive,
                 micState, micReleases, micToggles, fileSelects>>

\* ---------------------------------------------------- handleFileSelect
FileSelect ==
  /\ mounted
  /\ fileSelects < MaxFileSelects
  /\ startQ' = Append(startQ, FileCont)
  /\ fileSelects' = fileSelects + 1
  /\ lastOp' = "FileSelect"
  /\ UNCHANGED extVars
  /\ UNCHANGED <<lifeVars, ctx, setVars, graphVars, errVars, micVars>>

\* new Tone.Player({ autostart: true }).
NewPlayerAutostart == "started"

\* new Tone.Player({ url, autostart: false, loop: false }): made stopped.
NewPlayerState == "stopped"

\* handleFileSelect forgetting the player it replaces.
NoPreviousPlayers == {}

\* The players handleFileSelect disposes before it makes the new one.
PreviousPlayers == IF refs["filePlayer"] = Null THEN {} ELSE {refs["filePlayer"]}

\* After the await: the previous player is stopped, disconnected and
\* disposed; a new one is made, connected to the entry node (a TypeError
\* when the pitch ref is empty, which ends the handler) and stored.
FileSelectResume ==
  /\ StartResolved
  /\ startQ # <<>>
  /\ Head(startQ).op = "file"
  /\ LET prev == PreviousPlayers
         pl == Node("player", Cardinality(Players) + 1)
     IN /\ nodes' = nodes \cup {pl}
        /\ disposeCount' = [n \in nodes' |->
                              IF n = pl THEN 0
                              ELSE IF n \in prev THEN disposeCount[n] + 1
                              ELSE disposeCount[n]]
        /\ param' = [n \in DOMAIN param \cup {pl} |->
                       IF n = pl THEN [state |-> NewPlayerState]
                       ELSE IF n \in prev THEN [state |-> "stopped"]
                       ELSE param[n]]
        /\ IF refs["pitch"] = Null
           THEN /\ edges' = Disconnect(edges, prev)
                /\ refs' = refs
           ELSE /\ edges' = Disconnect(edges, prev) \cup {<<pl, refs["pitch"]>>}
                /\ refs' = [refs EXCEPT !["filePlayer"] = pl]
  /\ startQ' = Tail(startQ)
  /\ lastOp' = "FileSelectResume"
  /\ UNCHANGED extVars
  /\ UNCHANGED <<lifeVars, ctx, setVars, errVars, micVars, fileSelects>>

\* ------------------------------------------------------ handlePlayPause
PlayCont(playing) == [op |-> "play", playing |-> playing]

\* The click: nothing without a player in the ref; else the handler keeps
\* the isPlayingFile of its render and waits on startTone().
PlayPause ==
  /\ mounted
  /\ refs["filePlayer"] # Null
  /\ playClicks < MaxPlayClicks
  /\ startQ' = Append(startQ, PlayCont(isPlayingFile))
  /\ playClicks' = playClicks + 1
  /\ lastOp' = "PlayPause"
  /\ UNCHANGED <<lifeVars, ctx, setVars, graphVars, errVars, micVars, fileSelects,
                 isPlayingFile, onstopSet, recVars>>

\* After the await: the player now in the ref is stopped, or started and
\* given the onstop that clears isPlayingFile.
PlayPauseResume ==
  /\ StartResolved
  /\ startQ # <<>>
  /\ Head(startQ).op = "play"
  /\ LET pl == refs["filePlayer"]
     IN IF Head(startQ).playing
        THEN /\ param' = [param EXCEPT ![pl] = [state |-> "stopped"]]
             /\ isPlayingFile' = FALSE
             /\ onstopSet' = onstopSet
        ELSE /\ param' = [param EXCEPT ![pl] = [state |-> "started"]]
             /\ isPlayingFile' = TRUE
             /\ onstopSet' = onstopSet \cup {pl}
  /\ startQ' = Tail(startQ)
  /\ lastOp' = "PlayPauseResume"
  /\ UNCHANGED <<lifeVars, ctx, setVars, refs, nodes, edges, disposeCount, errVars,
                 micVars, fileSelects, playClicks, recVars>>

\* A started player reaches the end of its file (loop: false): it stops and
\* its onstop, when handlePlayPause set one, clears isPlayingFile.
PlayerEnded(pl) ==
  /\ pl \in Players
  /\ param[pl].state = "started"
  /\ disposeCount[pl] = 0
  /\ param' = [param EXCEPT ![pl] = [state |-> "stopped"]]
  /\ isPlayingFile' = IF pl \in onstopSet THEN FALSE ELSE isPlayingFile
  /\ lastOp' = "PlayerEnded"
  /\ UNCHANGED <<lifeVars, ctx, startQ, setVars, refs, nodes, edges, disposeCount,
                 errVars, micVars, fileSelects, onstopSet, playClicks, recVars>>

\* ------------------------------------------------------------ recording
\* The chunk a recorder hands over when it stops: rec.start() takes no
\* timeslice, so a recorder delivers its data once.
Chunk(s) == <<s, 1>>

\* startRecording: nothing without the recording tap; else the chunk list is
\* emptied, a recorder made on the tap's stream, stored and started.
StartRecording ==
  /\ mounted
  /\ ~isRecording
  /\ recordings < MaxRecordings
  /\ refs["mediaDest"] # Null
  /\ LET s == recordings + 1
     IN /\ recordings' = s
        /\ mediaRecorder' = s
        /\ recorder' = [r \in DOMAIN recorder \cup {s} |->
                          IF r = s THEN "recording" ELSE recorder[r]]
        /\ delivered' = [r \in DOMAIN delivered \cup {s} |->
                           IF r = s THEN <<>> ELSE delivered[r]]
  /\ recordedChunks' = <<>>
  /\ isRecording' = TRUE
  /\ lastOp' = "StartRecording"
  /\ UNCHANGED <<lifeVars, ctx, startQ, setVars, graphVars, errVars, micVars,
                 fileSelects, playVars, blobs>>

\* stopRecording: mediaRecorderRef.current?.stop(); setIsRecording(false).
\* stop() returns at once; the recorder's last events come in a later task.
StopRecording ==
  /\ mounted
  /\ isRecording
  /\ recorder' = IF mediaRecorder \in DOMAIN recorder
                     /\ recorder[mediaRecorder] = "recording"
                  THEN [recorder EXCEPT ![mediaRecorder] = "stopping"]
                  ELSE recorder
  /\ isRecording' = FALSE
  /\ lastOp' = "StopRecording"
  /\ UNCHANGED <<lifeVars, ctx, startQ, setVars, graphVars, errVars, micVars,
                 fileSelects, playVars, mediaRecorder, recordedChunks, delivered,
                 blobs, recordings>>

\* The task a stopped recorder queues: dataavailable with what it gathered
\* (pushed to the chunk list when its size is above 0), then stop, whose
\* handler builds the blob from the chunk list.
RecorderStopped(s, size) ==
  /\ s \in DOMAIN recorder
  /\ recorder[s] = "stopping"
  /\ LET chunks == IF size > 0 THEN Append(recordedChunks, Chunk(s))
                   ELSE recordedChunks
     IN /\ recordedChunks' = chunks
        /\ blobs' = [r \in DOMAIN blobs \cup {s} |->
                       IF r = s THEN chunks ELSE blobs[r]]
  /\ delivered' = [delivered EXCEPT
                     ![s] = IF size > 0 THEN Append(@, Chunk(s)) ELSE @]
  /\ recorder' = [recorder EXCEPT ![s] = "inactive"]
  /\ lastOp' = "RecorderStopped"
  /\ UNCHANGED <<lifeVars, ctx, startQ, setVars, graphVars, errVars, micVars,
                 fileSelects, playVars, isRecording, mediaRecorder, recordings>>

\* ------------------------------------------------------- specifications
SettingsNext ==
  \/ \E id \in PresetIds : ApplyPreset(id)
  \/ \E key \in SettingKeys : \E v \in SliderValues(key) : SetSetting(key, v)
  \/ SettingsEffect

MicNext ==
  \/ MicToggle
  \/ MicToggleOn
  \/ MicToggleOff
  \/ \E m \in micPending : MicOpenResolve(m)
  \/ \E m \in micPending : MicOpenReject(m)

FileNext ==
  \/ FileSelect
  \/ FileSelectResume

SourceNext == MicNext \/ FileNext

PlayNext ==
  \/ PlayPause
  \/ PlayPauseResume
  \/ \E pl \in Players : PlayerEnded(pl)

\* The sizes of the data a stopping recorder hands over: none, or some.
ChunkSizes == {0, 1}

RecordNext ==
  \/ StartRecording
  \/ StopRecording
  \/ \E s \in DOMAIN recorder : \E size \in ChunkSizes : RecorderStopped(s, size)

LifeNext ==
  \/ ContextStart
  \/ BuildGraphResume
  \/ Teardown("none")

\* A cleanup in which the dispose of one held node raises.
ThrowNext == \E t \in Range(TeardownOrder) : Teardown(t)

Next ==
  LifeNext \/ Mount \/ ThrowNext \/ SettingsNext \/ SourceNext \/ PlayNext
    \/ RecordNext

Spec == Init /\ [][Next]_vars

\* The settings side alone, over one life of the graph (built once, torn
\* down once): the graph's life and the settings state.  The
\* source handlers left out write only the microphone and player nodes,
\* their refs and their connections, which nothing here reads but Teardown.
SettingsSpec == Init /\ [][LifeNext \/ SettingsNext]_vars

\* The file player alone, over one life of the graph: file selections and
\* the play / stop button.
PlaySpec == Init /\ [][LifeNext \/ FileNext \/ PlayNext]_vars

\* The recorder alone, over one life of the graph.
RecordSpec == Init /\ [][LifeNext \/ RecordNext]_vars

\* The source side alone, over one life of the graph: the graph's life and
\* the two source handlers, with the settings at their initial value.
SourceSpec == Init /\ [][LifeNext \/ SourceNext]_vars

\* The microphone side with the effects run again on the same component and
\* with cleanups in which a dispose raises.
ThrowSpec == Init /\ [][LifeNext \/ Mount \/ ThrowNext \/ MicNext]_vars

\* ================================================================ claims
\* What a reader of the nodes sees, as a settings value would name it.
Live(r) == refs[r] # Null /\ disposeCount[refs[r]] = 0
GraphLive == \A k \in BuiltKinds : Live(k)
ReadBack ==
  [pitchSemitones |-> param[refs["pitch"]].pitch,
   reverbWet |-> param[refs["reverb"]].wet,
   distortion |-> param[refs["distortion"]].distortion,
   delayTime |-> param[refs["delay"]].delayTime,
   delayFeedback |-> param[refs["delay"]].feedback,
   eqLow |-> param[refs["eq"]].low,
   eqMid |-> param[refs["eq"]].mid,
   eqHigh |-> param[refs["eq"]].high]
EffectFields == SettingKeys \ {"ringModHz"}

\* C1: on a built graph, when the settings effect has run after
\* applyPreset(P), every node parameter reads back as P's field (pitch,
\* distortion, delay time and feedback, reverb wet, the three EQ gains),
\* whatever the settings were before.
C1_PresetReadBack ==
  (lastOp = "SettingsEffect" /\ GraphLive /\ settingsObj = PresetObj(preset))
    => \A k \in EffectFields : ReadBack[k] = PRESETS[preset][k]

\* C1 witness: the effect has run for preset alien on a built graph after an
\* earlier slider change, and the nodes read alien's values.
C1_Witness ==
  /\ lastOp = "SettingsEffect"
  /\ GraphLive
  /\ settingsObj = PresetObj("alien")
  /\ settingsOps = 2
  /\ ReadBack["pitchSemitones"] = -12
  /\ ReadBack["delayFeedback"] = 30

\* C2: on a built graph, when the settings effect has run with settings S:
\* S.ringModHz = 0 gives ring gain 0 and a stopped oscillator; S.ringModHz > 0
\* gives ring gain 0.5 and a started oscillator at max(S.ringModHz, floor).
C2_RingRule ==
  (lastOp = "SettingsEffect" /\ Live("ringOsc") /\ Live("ringGain"))
    => LET osc == param[refs["ringOsc"]]
           gain == param[refs["ringGain"]].gain
       IN IF settings.ringModHz = 0
          THEN gain = 0 /\ osc.state = "stopped"
          ELSE /\ gain = 50
               /\ osc.state = "started"
               /\ osc.frequency = Max(settings.ringModHz * FreqScale, RingFloor)

\* C2 witness: robot was applied and the ring slider then set to 0; after the
\* effect the oscillator is stopped and the gain 0.
C2_Witness ==
  /\ lastOp = "SettingsEffect"
  /\ Live("ringOsc")
  /\ Live("ringGain")
  /\ preset = "robot"
  /\ settingsObj = FreshObj(2)
  /\ settings.ringModHz = 0
  /\ param[refs["ringOsc"]].state = "stopped"
  /\ param[refs["ringGain"]].gain = 0

\* The topology of the design, for the nodes of build g: the recording tap
\* and the audible output both fed by the final gain.
FixedTopology(g) ==
  {<<Node("pitch", g), Node("distortion", g)>>,
   <<Node("ringOsc", g), Node("ringGain", g)>>,
   <<Node("ringGain", g), Node("distortion", g)>>,
   <<Node("distortion", g), Node("delay", g)>>,
   <<Node("delay", g), Node("reverb", g)>>,
   <<Node("reverb", g), Node("eq", g)>>,
   <<Node("eq", g), Node("finalGain", g)>>,
   <<Node("finalGain", g), Node("analyser", g)>>,
   <<Node("finalGain", g), Destination>>,
   <<Node("finalGain", g), Node("mediaDest", g)>>}

\* The nodes reached from the nodes in `from` along `es`.
RECURSIVE ReachFrom(_, _)
ReachFrom(from, es) ==
  LET next == from \cup {e[2] : e \in {x \in es : x[1] \in from}}
  IN IF next = from THEN from ELSE ReachFrom(next, es)

\* Every path from the entry node to an output passes through node n: with n
\* taken out, no output is reached.
PassesThrough(n, g) ==
  LET es == {e \in edges : e[1] # n /\ e[2] # n}
  IN ReachFrom({Node("pitch", g)}, es) \cap {Destination, Node("mediaDest", g)} = {}

\* C3: after buildGraph the connections of the built nodes are exactly the
\* fixed topology, and every path from PitchShift to the audible output or
\* the recording tap passes through Distortion, Delay, Reverb, EQ3 and
\* FinalGain.
C3_FixedTopology ==
  lastOp = "BuildGraphResume"
    => /\ {e \in edges : e[1][2] = Builds \/ e[2][2] = Builds} = FixedTopology(Builds)
       /\ \A k \in {"distortion", "delay", "reverb", "eq", "finalGain"} :
            PassesThrough(Node(k, Builds), Builds)

\* C4: a step of the settings-update path (applyPreset, setSetting, the
\* settings effect) leaves the set of nodes, the set of connections, the
\* refs and the disposals as they were.
C4_SettingsKeepTopology ==
  [][lastOp' \in {"SettingsEffect", "ApplyPreset", "SetSetting"}
       => /\ edges' = edges
          /\ nodes' = nodes
          /\ refs' = refs
          /\ disposeCount' = disposeCount]_vars

\* C4 witness: the effect has just changed parameters of a built, connected
\* graph (ring modulation switched off by preset radio after a slider had
\* switched it on).
C4_Witness ==
  /\ lastOp = "SettingsEffect"
  /\ GraphLive
  /\ BuildEdges(Builds) \subseteq edges
  /\ settingsObj = PresetObj("radio")
  /\ settingsOps = 2
  /\ param[refs["ringGain"]].gain = 0
  /\ param[refs["pitch"]].pitch = -1

\* Nothing is left to run: no handler waits on startTone() or on open().
Quiet == startQ = <<>> /\ micPending = {}

\* C5: when the dispose of one held resource raises during the cleanup, the
\* error does not leave the cleanup and every other held resource is
\* disposed by that cleanup.
C5_BestEffortTeardown ==
  [][(lastOp' = "Teardown" /\ threw' # "none")
       => /\ ~escaped'
          /\ \A r \in Range(TeardownOrder) \ {threw'} :
               Held(r) => disposeCount'[refs[r]] = disposeCount[refs[r]] + 1]_vars

\* C6: once the cleanup has run and nothing is left to run, every effect
\* node ever constructed has been disposed (also when no dispose raised).
C6_NoUndisposedNode ==
  (~mounted /\ Quiet /\ threw = "none")
    => \A n \in EffectNodes : disposeCount[n] >= 1

\* C7: a cleanup never throws and never disposes again a node that was
\* disposed before, nor stops a microphone stream a second time.
C7_ReleasedAtMostOnce ==
  [][lastOp' = "Teardown"
       => /\ ~escaped'
          /\ \A n \in nodes : disposeCount'[n] = disposeCount[n] \/ disposeCount[n] = 0
          /\ \A m \in Mics : micReleases'[m] <= 1]_vars

\* C8: at the cleanup that follows a sequence of completed file selections,
\* every player ever created ends disposed exactly once and disconnected
\* (the dispose of the held player not raising).
C8_PlayersDisposedOnce ==
  [][(lastOp' = "Teardown" /\ teardowns = 0 /\ threw' # "filePlayer"
        /\ \A i \in DOMAIN startQ : startQ[i].op # "file")
       => \A p \in Players :
            /\ disposeCount'[p] = 1
            /\ \A e \in edges' : e[1] # p]_vars

\* C8 witness: two files were selected, then the cleanup ran; both players
\* are disposed once.
C8_Witness ==
  /\ lastOp = "Teardown"
  /\ teardowns = 1
  /\ Cardinality(Players) = 2
  /\ \A p \in Players : disposeCount[p] = 1

\* C9: once the cleanup has run and nothing is left to run, no microphone
\* stream opened by the page is open (also when no dispose raised).
C9_NoOpenMicAfterTeardown ==
  (~mounted /\ Quiet /\ threw = "none")
    => \A m \in Mics : micState[m] # "open"

\* C10: a microphone and a file player are never both connected to the same
\* entry node.
C10_OneLiveSource ==
  ~ \E e1 \in edges : \E e2 \in edges :
      /\ KindOf(e1[1]) = "mic"
      /\ KindOf(e2[1]) = "player"
      /\ KindOf(e1[2]) = "pitch"
      /\ e1[2] = e2[2]

\* C11: when mic.open() is refused, handleMicToggle ends there and changes
\* nothing: isMicLive, the refs, the nodes, their connections and parameters
\* are as before the refusal, the refused microphone is neither stored nor
\* connected nor open, and nothing is queued or opened again (no retry).
C11_RefusedOpenChangesNothing ==
  [][lastOp' = "MicOpenReject"
       => /\ isMicLive' = isMicLive
          /\ refs' = refs
          /\ nodes' = nodes
          /\ edges' = edges
          /\ param' = param
          /\ disposeCount' = disposeCount
          /\ micState' = micState
          /\ startQ' = startQ
          /\ micPending' \subseteq micPending
          /\ \A m \in micPending \ micPending' :
               /\ micState'[m] = "created"
               /\ refs'["input"] # m
               /\ \A e \in edges' : e[1] # m /\ e[2] # m]_vars

\* A refusal happened, and a later toggle opened, connected and stored a
\* microphone.
C11_Witness ==
  \E m1, m2 \in Mics :
    /\ m1[2] < m2[2]
    /\ micState[m1] = "created"
    /\ m1 \notin micPending
    /\ micState[m2] = "open"
    /\ refs["input"] = m2
    /\ <<m2, refs["pitch"]>> \in edges
    /\ isMicLive

\* C12: the blob built when a session's recorder stops holds exactly the
\* non-empty chunks that recorder delivered, in the order delivered, and
\* none of another session.
C12_BlobIsOwnSession ==
  \A s \in DOMAIN blobs : blobs[s] = delivered[s]

\* C13: no connection is made before the audio context is running: every
\* step that adds a connection (buildGraph's wiring, microphone to entry
\* node, player to entry node) is taken with the context running.
C13_ConnectAfterStart ==
  [][edges' \ edges # {} => ctx = "running" /\ ctx' = "running"]_vars

\* The graph is wired and a microphone and a player have each been
\* connected to its entry node.
C13_Witness ==
  /\ Built
  /\ BuildEdges(Builds) \subseteq edges
  /\ \E m \in Mics : <<m, refs["pitch"]>> \in edges
  /\ \E pl \in Players : <<pl, refs["pitch"]>> \in edges

\* The range the claim gives each field, in the units of the model
\* (hundredths for the fractional fields).
InRange(s) ==
  /\ s.pitchSemitones \in -12..12
  /\ s.reverbWet \in 0..100
  /\ s.distortion \in 0..100
  /\ s.delayTime \in 0..50
  /\ s.delayFeedback \in 0..90
  /\ s.eqLow \in -12..12
  /\ s.eqMid \in -12..12
  /\ s.eqHigh \in -12..12
  /\ s.ringModHz \in 0..200

\* C14: the settings are always within their ranges (pitch -12..12, reverb
\* wet 0..1, distortion 0..1, delay time 0..0.5, delay feedback 0..0.9, the
\* three EQ gains -12..12, ring-mod 0..200): at the start, for every preset,
\* and after any sequence of applyPreset and slider changes.
C14_SettingsInRange ==
  /\ InRange(settings)
  /\ \A id \in PresetIds : InRange(PRESETS[id])

\* Sliders have been put at ends of their ranges after a preset was applied.
C14_Witness ==
  /\ preset # "clean"
  /\ settings.delayFeedback = 90
  /\ settings.ringModHz = 200
  /\ settingsOps = 3

\* C15: setSetting(key, v) yields settings with all nine fields, the field
\* key at v and the other eight as the settings state held them just before,
\* also when earlier applyPreset / setSetting calls have not reached the
\* settings effect yet (no update is lost).
C15_SetSettingMerges ==
  [][lastOp' = "SetSetting"
       => /\ DOMAIN settings' = SettingKeys
          /\ \E key \in SettingKeys :
               /\ settings'[key] \in SliderValues(key)
               /\ \A k \in SettingKeys \ {key} : settings'[k] = settings[k]]_vars

\* Three setSetting calls on three fields with no settings effect in
\* between, each away from the initial value, all three kept.
C15_Witness ==
  /\ lastOp = "SetSetting"
  /\ settingsOps = 3
  /\ depsObj = PresetObj("clean")
  /\ Cardinality({k \in SettingKeys : settings[k] # PRESETS["clean"][k]}) = 3

\* C16: attaching a file never starts playback: the player handleFileSelect
\* makes is not started when the handler is done, also when the previous
\* file was playing, and a player goes from not started to started only in
\* handlePlayPause.
C16_AttachNeverStarts ==
  [][/\ lastOp' = "FileSelectResume"
          => \A pl \in nodes' \ nodes :
               KindOf(pl) = "player" => param'[pl].state = "stopped"
     /\ \A pl \in nodes' :
          (/\ KindOf(pl) = "player"
           /\ param'[pl].state = "started"
           /\ (pl \in nodes => param[pl].state # "started"))
            => lastOp' = "PlayPauseResume"]_vars

\* A second file has just been attached while the first was playing: the
\* first is disposed, the new player is in the ref and not started.
C16_Witness ==
  /\ lastOp = "FileSelectResume"
  /\ Cardinality(Players) = 2
  /\ isPlayingFile
  /\ disposeCount[Node("player", 1)] = 1
  /\ refs["filePlayer"] = Node("player", 2)
  /\ param[Node("player", 2)].state = "stopped"

\* C17: whenever the graph is built and no settings update waits for the
\* settings effect, the node parameters equal the current settings: the
\* eight effect fields read back, and the ring gain and oscillator are in
\* the state ringModHz implies.
C17_ParamsFollowSettings ==
  (mounted /\ GraphLive /\ ~Pending)
    => /\ \A k \in EffectFields : ReadBack[k] = settings[k]
       /\ param[refs["ringGain"]].gain =
            (IF settings.ringModHz > 0 THEN RingGainOn ELSE RingGainOff)
       /\ param[refs["ringOsc"]].state =
            (IF settings.ringModHz > 0 THEN "started" ELSE "stopped")

\* The microphones that are open, and whether the one in the input ref is
\* open and connected to the entry node.
OpenMics == {m \in Mics : micState[m] = "open"}
StoredMicLive ==
  /\ refs["input"] \in OpenMics
  /\ <<refs["input"], refs["pitch"]>> \in edges

\* C18: while the component is mounted, at most one microphone is open at
\* any time, and isMicLive is true exactly when an open microphone is stored
\* in the input ref and connected to the entry node.
C18_OneMicAndFlagAgree ==
  mounted => /\ Cardinality(OpenMics) <= 1
             /\ isMicLive <=> StoredMicLive

\* C19: once the handlers have finished, no source is left outside its ref:
\* every open microphone is the one in the input ref, connected to the entry
\* node, and every player not disposed is the one in the player ref,
\* connected to the entry node.
C19_NoSourceLeftOutsideRef ==
  (mounted /\ Quiet)
    => /\ \A m \in OpenMics :
            refs["input"] = m /\ <<m, refs["pitch"]>> \in edges
       /\ \A pl \in Players :
            disposeCount[pl] = 0
              => refs["filePlayer"] = pl /\ <<pl, refs["pitch"]>> \in edges

====
